---- MODULE Spec2Model ----
(***************************************************************************)
(* Model of X3dScene (resources/web/wwi/x3d_scene.js): the identifier      *)
(* cache (objectsIdCache), the DEF/USE alias cache (useNodeCache) and the  *)
(* operations that read and mutate the THREE.js scene graph.               *)
(*                                                                         *)
(* Objects live in a heap (a sequence of records); an object reference is  *)
(* its index, Null stands for undefined/null.  An external id 'n'+k is     *)
(* the natural k; a name 'n1;n12' is the sequence <<1, 12>>.               *)
(***************************************************************************)
EXTENDS Integers, Sequences, FiniteSets, TLC

VARIABLES
  heap,            \* all objects ever allocated; heap[SceneObj] is this.scene
  root,            \* this.root
  sceneModified,   \* this.sceneModified
  useNodeCache,    \* this.useNodeCache: key -> [source, target]
  objectsIdCache,  \* this.objectsIdCache: key -> [object, field, parent]
  pending,         \* loader.load callbacks not yet run
  steps,           \* handlers run so far
  last,            \* what the last handler did (operation, arguments, result)
  ulog             \* the _updateUseNodesIfNeeded calls of the last handler

vars == <<heap, root, sceneModified, useNodeCache, objectsIdCache, pending, steps, last, ulog>>

--------------------------------------------------------------------------
(* Bounds *)

\* objects the heap may hold
MaxObjects == 14
\* keys of one pose record besides id
MaxPoseKeys == 2
\* loader.load calls in flight
MaxPending == 1
\* numeric ids 1..MaxId used by the events (and the two-digit id PrefixId)
MaxId == 5
\* handlers run in one behaviour
MaxSteps == 5
\* how many handler calls a behaviour of SpecAlias makes
MaxAliasSteps == 4

--------------------------------------------------------------------------
(* Objects *)

Null == 0
SceneObj == 1

\* the two-digit id 'n12', of which 'n1' is a prefix
PrefixId == 12

Ids == (1..MaxId) \cup {PrefixId}

MapSlots == <<"map", "aoMap", "roughnessMap", "metalnessMap", "normalMap", "emissiveMap">>

Slots == {"material", "geometry"} \cup {MapSlots[i] : i \in 1..Len(MapSlots)}

NoAtt == [s \in Slots |-> Null]

\* new THREE.Object3D()/Mesh/Material/Geometry/Texture with the fields the scene reads
NewObject(kind, name) ==
  [kind |-> kind, name |-> name, parent |-> Null, children |-> <<>>, userDataUSE |-> <<>>,
   att |-> NoAtt, position |-> 0, quaternion |-> 0, visible |-> TRUE,
   color |-> 0, emissive |-> 0, hasTransform |-> FALSE, translation |-> 0]

isObject3D(h, o) == h[o].kind \in {"Object3D", "Mesh"}
isMesh(h, o) == h[o].kind = "Mesh"
isMaterial(h, o) == h[o].kind = "Material"
isGeometry(h, o) == h[o].kind = "Geometry"
isTexture(h, o) == h[o].kind = "Texture"

\* the one element of a singleton set; { e(x) : x \in {v} } names the value v once
Only(S) == CHOOSE x \in S : TRUE

\* position of x in s, 0 when absent (indexOf, one-based)
IndexOf(s, x) ==
  IF \E i \in 1..Len(s) : s[i] = x
  THEN CHOOSE i \in 1..Len(s) : s[i] = x /\ \A j \in 1..(i - 1) : s[j] # x
  ELSE 0

RemoveAt(s, i) == SubSeq(s, 1, i - 1) \o SubSeq(s, i + 1, Len(s))

InsertAt(s, i, x) == SubSeq(s, 1, i - 1) \o <<x>> \o SubSeq(s, i, Len(s))

\* THREE.Object3D.remove: no effect unless o is a child of p
Remove(h0, p, o) ==
  Only({ IF i = 0 THEN h
         ELSE [h EXCEPT ![o].parent = Null, ![p].children = RemoveAt(@, i)]
         : h \in {h0}, i \in {IndexOf(h0[p].children, o)} })

\* THREE.Object3D.add: detach from the former parent, append to p.children
Add(h0, p, o) ==
  Only({ [h EXCEPT ![o].parent = p, ![p].children = Append(@, o)]
         : h \in {IF h0[o].parent # Null THEN Remove(h0, h0[o].parent, o) ELSE h0} })

RECURSIVE CloneObject(_, _)
RECURSIVE CloneChildren(_, _, _, _)
\* THREE.Object3D.clone(): a new object appended to the heap (its reference is
\* Len(h) + 1), children cloned recursively, userData copied, and for a mesh the
\* material and geometry references shared with the original
CloneObject(h0, o) ==
  Only({ CloneChildren(
           Append(h, [h[o] EXCEPT !.parent = Null, !.children = <<>>,
                                  !.att = IF isMesh(h, o)
                                          THEN [NoAtt EXCEPT !["material"] = h[o].att["material"],
                                                             !["geometry"] = h[o].att["geometry"]]
                                          ELSE NoAtt]),
           Len(h) + 1, h[o].children, 1)
         : h \in {h0} })

CloneChildren(h0, p, kids, i) ==
  IF i > Len(kids) THEN h0
  ELSE Only({ Only({ CloneChildren([h1 EXCEPT ![Len(h) + 1].parent = p,
                                              ![p].children = Append(@, Len(h) + 1)],
                                   p, kids, i + 1)
                     : h1 \in {CloneObject(h, kids[i])} })
              : h \in {h0} })

--------------------------------------------------------------------------
(* Identifiers and names *)

\* decimal string a is a prefix of decimal string b
RECURSIVE IsPrefix(_, _)
IsPrefix(a, b) == a = b \/ (b >= 10 /\ IsPrefix(a, b \div 10))

\* object.name && object.name.includes('n' + id): the id starts with 'n' and holds
\* no ';', so it occurs in the joined name exactly where it is a prefix of a token
NameIncludes(name, id) == \E i \in 1..Len(name) : IsPrefix(id, name[i])

\* objectsIdCache key of the string 'n' + id
NKey(id) == <<"n", id>>
\* objectsIdCache key of the bare number id (String(id))
NumKey(id) == <<"", id>>

--------------------------------------------------------------------------
(* getObjectByCustomId *)

\* The search state of one top-level call that missed the cache: obj is the
\* object cached for the id during this call (Null while none is), field and
\* parent are the one context object every recursive call shares; once obj is
\* cached that same context object is the cached entry's context.
NewSearch == [obj |-> Null, field |-> "none", parent |-> Null]

RECURSIVE Visit(_, _, _, _)
RECURSIVE VisitChildren(_, _, _, _, _)
RECURSIVE VisitMaps(_, _, _, _, _)

\* object.children.forEach(child => { context.parent = object; childObject = ...;
\* if (...) return childObject; }): the return leaves the callback only, so every
\* child is visited and nothing is returned from the enclosing function
VisitChildren(h, o, id, s0, i) ==
  IF i > Len(h[o].children) THEN s0
  ELSE Only({ VisitChildren(h, o, id, r.s, i + 1)
              : r \in {Visit(h, h[o].children[i], id, [s0 EXCEPT !.parent = o])} })

\* the material's texture slots in their fixed order
VisitMaps(h, o, id, s0, i) ==
  IF i > Len(MapSlots) THEN [ret |-> Null, s |-> s0]
  ELSE Only({ IF r.ret # Null
              THEN [ret |-> r.ret, s |-> [r.s EXCEPT !.field = MapSlots[i], !.parent = o]]
              ELSE VisitMaps(h, o, id, r.s, i + 1)
              : r \in {Visit(h, h[o].att[MapSlots[i]], id, s0)} })

\* the attachments of a mesh: material, then geometry (lines 279-291)
VisitMesh(h, o, id, s1) ==
  Only({ IF rm.ret # Null
         THEN [ret |-> rm.ret, s |-> [rm.s EXCEPT !.field = "material", !.parent = o]]
         ELSE Only({ IF rg.ret # Null
                     THEN [ret |-> rg.ret,
                           s |-> [rg.s EXCEPT !.field = "geometry", !.parent = o]]
                     ELSE [ret |-> Null, s |-> rg.s]
                     : rg \in {Visit(h, h[o].att["geometry"], id, rm.s)} })
         : rm \in {Visit(h, h[o].att["material"], id, s1)} })

\* one (recursive) call getObjectByCustomId(o, id, context) during a search
Visit(h, o, id, s0) ==
  Only({ IF o = Null THEN [ret |-> Null, s |-> [s EXCEPT !.parent = Null]]
         ELSE IF s.obj # Null THEN [ret |-> s.obj, s |-> s]
         ELSE IF NameIncludes(h[o].name, id) THEN [ret |-> o, s |-> [s EXCEPT !.obj = o]]
         ELSE Only({ IF isMesh(h, o) THEN VisitMesh(h, o, id, s1)
                     ELSE IF isMaterial(h, o) THEN VisitMaps(h, o, id, s1, 1)
                     ELSE [ret |-> Null, s |-> s1]
                     : s1 \in {VisitChildren(h, o, id, s, 1)} })
         : s \in {s0} })

\* this.getObjectByCustomId(this.scene, 'n' + id, context) with a fresh context:
\* the returned object, the context as the caller sees it, and the cache after
getObjectByCustomId(h0, idc0, id) ==
  Only({ IF NKey(id) \in DOMAIN idc
         THEN [ret |-> idc[NKey(id)].object, field |-> idc[NKey(id)].field,
               parent |-> idc[NKey(id)].parent, idc |-> idc]
         ELSE Only({ [ret |-> r.ret, field |-> r.s.field, parent |-> r.s.parent,
                      idc |-> IF r.s.obj = Null THEN idc
                              ELSE (NKey(id) :> [object |-> r.s.obj, field |-> r.s.field,
                                                 parent |-> r.s.parent]) @@ idc]
                     : r \in {Visit(h, SceneObj, id, NewSearch)} })
         : h \in {h0}, idc \in {idc0} })

--------------------------------------------------------------------------
(* _updateUseNodesIfNeeded *)

\* What a handler is working on: the heap, the two caches, whether a TypeError
\* has been thrown (the rest of the handler is then skipped) and the log of
\* the _updateUseNodesIfNeeded calls made so far.
Machine(h, idc, unc, sm) ==
  [heap |-> h, idc |-> idc, unc |-> unc, sm |-> sm, thrown |-> FALSE, log |-> <<>>]

\* useNodeCache key of a pose id (a number, hence the property name String(id))
PoseKey(id) == <<"", <<id>>>>
\* useNodeCache key of a split name: 'n1' for ['n1'], '' for [''], and the
\* array's own string 'n1,n2' for ['n1', 'n2']
NameKey(names) == <<"n", names>>

\* the loop of lines 384-388: every USE-bearing node on the way up overwrites
\* source, so the last one met remains
RECURSIVE FindSourceNearest(_, _, _, _)
FindSourceNearest(h, node, rt, source) ==
  IF node = Null \/ node = rt THEN source
  ELSE IF h[node].userDataUSE # <<>> THEN node
  ELSE FindSourceNearest(h, h[node].parent, rt, source)
RECURSIVE FindSource(_, _, _, _)
FindSource(h, node, rt, source) ==
  IF node = Null \/ node = rt THEN source
  ELSE FindSource(h, h[node].parent, rt,
                  IF h[node].userDataUSE # <<>> THEN node ELSE source)

\* source.userData.USE.split(';').forEach(useId => ...): resolve each id against
\* the scene, keep the ones that resolve
RECURSIVE ResolveTargets(_, _, _, _, _)
ResolveTargets(h, idc0, useIds, i, acc0) ==
  IF i > Len(useIds) THEN [idc |-> idc0, target |-> acc0]
  ELSE Only({ ResolveTargets(h, r.idc, useIds, i + 1,
                             IF r.ret # Null THEN Append(acc, r.ret) ELSE acc)
              : r \in {getObjectByCustomId(h, idc0, useIds[i])}, acc \in {acc0} })

\* children.splice(index, 0, x) for a zero-based index as indexOf returns it:
\* -1 counts from the end
Splice(s, index, x) ==
  LET start == IF index < 0 THEN (IF Len(s) + index < 0 THEN 0 ELSE Len(s) + index)
               ELSE IF index > Len(s) THEN Len(s) ELSE index
  IN InsertAt(s, start + 1, x)

\* lines 405-417 for one target whose parent is p: the clone c, already in the
\* heap h1 under the target's name, takes the target's place among p's children
ReplaceOne(h1, target, c, p) ==
  Only({ [h2 EXCEPT ![p].children = Splice(@, index, c), ![c].parent = p]
         : h2 \in {Remove(h1, p, target)},
           index \in {IndexOf(h1[p].children, target) - 1} })

\* the loop of lines 404-418 from target i on; st.heap is the heap so far,
\* st.newTargets the clones made, st.steps the record of each iteration
RECURSIVE ReplaceTargets(_, _, _, _)
ReplaceTargets(st0, sourceNode, targetNodes, i) ==
  Only({ IF i > Len(targetNodes) \/ st.thrown THEN st
         ELSE Only({
           IF h1[targetNodes[i]].parent = Null
           THEN \* parent.children: TypeError
                [st EXCEPT !.heap = h1, !.thrown = TRUE,
                           !.steps = Append(@, [target |-> targetNodes[i], clone |-> c,
                                                ok |-> FALSE, parent |-> Null,
                                                cloneParent |-> Null,
                                                named |-> FALSE, index |-> 0,
                                                before |-> <<>>, after |-> <<>>])]
           ELSE Only({
                  ReplaceTargets(
                    [st EXCEPT !.heap = h3, !.newTargets = Append(@, c),
                               !.steps = Append(@, [target |-> targetNodes[i], clone |-> c,
                                                    ok |-> TRUE, parent |-> p,
                                                    cloneParent |-> h3[c].parent,
                                                    named |-> (h3[c].name = h1[targetNodes[i]].name),
                                                    index |-> IndexOf(h1[p].children, targetNodes[i]),
                                                    before |-> h1[p].children,
                                                    after |-> h3[p].children])],
                    sourceNode, targetNodes, i + 1)
                  : h3 \in {ReplaceOne(h1, targetNodes[i], c, p)} })
           : h1 \in {[hc EXCEPT ![Len(st.heap) + 1].name = st.heap[targetNodes[i]].name]
                       : hc \in {CloneObject(st.heap, sourceNode)}},
             c \in {Len(st.heap) + 1},
             p \in {st.heap[targetNodes[i]].parent} })
         : st \in {st0} })

\* the USE-bearing nodes on the way from node up to the root (exclusive), nearest first
RECURSIVE UsePath(_, _, _)
UsePath(h, node, rt) ==
  IF node = Null \/ node = rt THEN <<>>
  ELSE (IF h[node].userDataUSE # <<>> THEN <<node>> ELSE <<>>) \o UsePath(h, h[node].parent, rt)

\* some object that existed in h0 has other children, parent or attachments in h1
GraphChanged(h0, h1) ==
  \E o \in 1..Len(h0) : \/ h0[o].children # h1[o].children
                        \/ h0[o].parent # h1[o].parent
                        \/ h0[o].att # h1[o].att

NoSteps(h) == [heap |-> h, thrown |-> FALSE, newTargets |-> <<>>, steps |-> <<>>]

\* lines 381-398: the entry of a key seen for the first time, and the cache
\* after the target ids were resolved
Discover(m, rt, object) ==
  Only({ IF source = Null THEN [idc |-> m.idc, entry |-> [source |-> Null, target |-> <<>>]]
         ELSE Only({ [idc |-> found.idc, entry |-> [source |-> source, target |-> found.target]]
                     : found \in {ResolveTargets(m.heap, m.idc, m.heap[source].userDataUSE,
                                                 1, <<>>)} })
         : source \in {FindSource(m.heap, object, rt, Null)} })

\* lines 399-420 for the entry of key, with the log record of the whole call
Propagate(m, rt, object, key, first, entry) ==
  Only({ [m EXCEPT !.heap = st.heap, !.thrown = st.thrown,
                   !.unc = IF entry.source # Null /\ ~st.thrown
                           THEN [@ EXCEPT ![key].target = st.newTargets] ELSE @,
                   !.log = Append(@, [object |-> object, key |-> key, first |-> first,
                                      usePath |-> UsePath(m.heap, object, rt),
                                      source |-> entry.source, tracked |-> entry.target,
                                      steps |-> st.steps,
                                      changed |-> GraphChanged(m.heap, st.heap)])]
         : st \in {IF entry.source = Null THEN NoSteps(m.heap)
                   ELSE ReplaceTargets(NoSteps(m.heap), entry.source, entry.target, 1)} })

\* a variant that runs discovery on every call, also for a key already cached
UpdateOneRediscover(m0, rt, object, key) ==
  Only({ IF m.thrown THEN m
         ELSE Only({ Propagate([m EXCEPT !.idc = d.idc, !.unc = (key :> d.entry) @@ @],
                               rt, object, key, TRUE, d.entry)
                     : d \in {Discover(m, rt, object)} })
         : m \in {m0} })

\* _updateUseNodesIfNeeded(object, id) for an id that is not an array (lines 381-420)
UpdateOne(m0, rt, object, key) ==
  Only({ IF m.thrown THEN m
         ELSE IF key \in DOMAIN m.unc THEN Propagate(m, rt, object, key, FALSE, m.unc[key])
         ELSE Only({ Propagate([m EXCEPT !.idc = d.idc, !.unc = (key :> d.entry) @@ @],
                               rt, object, key, TRUE, d.entry)
                     : d \in {Discover(m, rt, object)} })
         : m \in {m0} })

RECURSIVE UpdateEach(_, _, _, _, _)
\* id.forEach((item) => this._updateUseNodesIfNeeded(object, item))
UpdateEach(m0, rt, object, names, i) ==
  IF i > Len(names) THEN m0
  ELSE Only({ UpdateEach(m, rt, object, names, i + 1)
              : m \in {UpdateOne(m0, rt, object, NameKey(<<names[i]>>))} })

\* _updateUseNodesIfNeeded(object, object.name.split(';')): with more than one
\* element each is handled in turn and then, as nothing returns after the
\* forEach, the array itself is used as the id
_updateUseNodesIfNeeded(m0, rt, object, names) ==
  IF object = Null THEN m0
  ELSE UpdateOne(IF Len(names) > 1 THEN UpdateEach(m0, rt, object, names, 1) ELSE m0,
                 rt, object, NameKey(names))

--------------------------------------------------------------------------
(* The loader: what X3DLoader.parse / X3DLoader.load hand to the scene *)

\* The world of the scenario: root n1 holding the DEF node n3 (whose userData.USE
\* lists n2) and its USE node n2; n3 holds the shape n4 with material n5
\* (texture n6) and geometry n7.  The USE node n2 is the loader's clone of n3:
\* same child names, shared attachments.
World(b) ==
  << [NewObject("Object3D", <<1>>) EXCEPT !.children = <<b + 2, b + 7>>],
     [NewObject("Object3D", <<3>>) EXCEPT !.parent = b + 1, !.children = <<b + 3>>,
                                          !.userDataUSE = <<2>>],
     [NewObject("Mesh", <<4>>) EXCEPT !.parent = b + 2,
                                      !.att = [NoAtt EXCEPT !["material"] = b + 4,
                                                            !["geometry"] = b + 6]],
     [NewObject("Material", <<5>>) EXCEPT !.att = [NoAtt EXCEPT !["map"] = b + 5]],
     [NewObject("Texture", <<6>>) EXCEPT !.hasTransform = TRUE],
     NewObject("Geometry", <<7>>),
     [NewObject("Object3D", <<2>>) EXCEPT !.parent = b + 1, !.children = <<b + 8>>],
     [NewObject("Mesh", <<4>>) EXCEPT !.parent = b + 7,
                                      !.att = [NoAtt EXCEPT !["material"] = b + 4,
                                                            !["geometry"] = b + 6]] >>

\* an id no object is named with
MissingId == 9

\* the second id of a node that merges two X3D nodes (name 'n12;n13')
PairId == 13

\* a single Transform named 'n12;n13', a DEF node whose USE node n9 is not in
\* the scene
Node(b) == << [NewObject("Object3D", <<PrefixId, PairId>>) EXCEPT !.userDataUSE = <<MissingId>>] >>

Templates == {"world", "node"}

\* loader.parse(x3dObject): the new objects appended to the heap and the list of
\* the top-level ones
Parse(h, tpl) ==
  IF tpl = "world" THEN [heap |-> h \o World(Len(h)), objects |-> <<Len(h) + 1>>]
  ELSE [heap |-> h \o Node(Len(h)), objects |-> <<Len(h) + 1>>]

RECURSIVE AddAll(_, _, _, _)
\* objects.forEach((o) => { p.add(o); })
AddAll(h, p, objects, i) ==
  IF i > Len(objects) THEN h ELSE AddAll(Add(h, p, objects[i]), p, objects, i + 1)

--------------------------------------------------------------------------
(* Handlers *)

PoseKeys == {"translation", "rotation", "diffuseColor", "baseColor", "emissiveColor", "render"}

\* the value strings of the pose records
PoseValue(key) == IF key = "render" THEN "false" ELSE 1

\* the keys of a pose record in the order the stream writes them
KeyOrder == <<"translation", "rotation", "diffuseColor", "baseColor", "emissiveColor", "render">>

\* the pose records: one key, or up to MaxPoseKeys keys from translation on
Poses == {<<k>> : k \in PoseKeys} \cup {SubSeq(KeyOrder, 1, n) : n \in 2..MaxPoseKeys}

NoLast == [op |-> "init", id |-> 0, hit |-> FALSE, rets |-> <<>>,
           field |-> "none", parent |-> Null, thrown |-> FALSE]

\* the body of applyPose's loop for one key, object already resolved (lines 168-203)
ApplyKey(m, rt, id, object, key) ==
  LET h == m.heap
      v == PoseValue(key)
      hit == IF key = "translation" THEN
                IF isTexture(h, object) THEN
                  IF h[object].hasTransform
                  THEN [heap |-> [h EXCEPT ![object].translation = v], sm |-> TRUE]
                  ELSE [heap |-> h, sm |-> m.sm]
                ELSE IF isObject3D(h, object)
                THEN [heap |-> [h EXCEPT ![object].position = v], sm |-> TRUE]
                ELSE [heap |-> h, sm |-> m.sm]
             ELSE IF key = "rotation" /\ isObject3D(h, object)
             THEN [heap |-> [h EXCEPT ![object].quaternion = v], sm |-> TRUE]
             ELSE IF key \in {"diffuseColor", "baseColor"} /\ isMaterial(h, object)
             THEN [heap |-> [h EXCEPT ![object].color = v], sm |-> m.sm]
             ELSE IF key = "emissiveColor" /\ isMaterial(h, object)
             THEN [heap |-> [h EXCEPT ![object].emissive = v], sm |-> m.sm]
             ELSE IF key = "render" /\ isObject3D(h, object)
             THEN [heap |-> [h EXCEPT ![object].visible = (v = "true")], sm |-> m.sm]
             ELSE [heap |-> h, sm |-> m.sm]
  IN UpdateOne([m EXCEPT !.heap = hit.heap, !.sm = hit.sm], rt, object, PoseKey(id))

RECURSIVE PoseLoop(_, _, _, _, _, _)
\* for (let key in pose): resolve the id anew for every key; rets collects what
\* each resolution returned
PoseLoop(m0, rets, rt, id, keys, i) ==
  Only({ IF i > Len(keys) \/ m.thrown THEN [m |-> m, rets |-> rets]
         ELSE Only({ PoseLoop(IF r.ret = Null THEN [m EXCEPT !.idc = r.idc]
                              ELSE ApplyKey([m EXCEPT !.idc = r.idc], rt, id, r.ret, keys[i]),
                              Append(rets, r.ret), rt, id, keys, i + 1)
                     : r \in {getObjectByCustomId(m.heap, m.idc, id)} })
         : m \in {m0} })

Start == Machine(heap, objectsIdCache, useNodeCache, sceneModified)

\* the state a handler leaves: m is the machine at its end (or at the throw)
Commit(m) ==
  /\ Len(m.heap) <= MaxObjects
  /\ steps' = steps + 1
  /\ heap' = m.heap
  /\ objectsIdCache' = m.idc
  /\ useNodeCache' = m.unc
  /\ ulog' = m.log

applyPose(id, keys) ==
  /\ steps < MaxSteps
  /\ \E r \in {PoseLoop(Start, <<>>, root, id, keys, 1)} :
       /\ Commit(r.m)
       /\ sceneModified' = r.m.sm
       /\ last' = [NoLast EXCEPT !.op = "applyPose", !.id = id,
                                 !.hit = (NKey(id) \in DOMAIN objectsIdCache),
                                 !.rets = r.rets, !.thrown = r.m.thrown]
  /\ UNCHANGED <<root, pending>>

\* the cache without the property String(id)
DeleteKey(idc, id) ==
  IF NumKey(id) \in DOMAIN idc THEN [k \in DOMAIN idc \ {NumKey(id)} |-> idc[k]] ELSE idc

\* lines 97-104: the attachment slot field of parent gets a fresh default
\* material or geometry (appended to the heap), or is cleared
ReplaceAttachment(h, object, parent, field) ==
  IF isMaterial(h, object)
  THEN [Append(h, NewObject("Material", <<>>)) EXCEPT ![parent].att[field] = Len(h) + 1]
  ELSE IF isGeometry(h, object)
  THEN [Append(h, NewObject("Geometry", <<>>)) EXCEPT ![parent].att[field] = Len(h) + 1]
  ELSE [h EXCEPT ![parent].att[field] = Null]

\* lines 95-112 for a resolved object; r is the resolution
DeleteResolved(m, rt, id, r) ==
  Only({ IF parent = Null
         THEN \* parent[context.field] of undefined, object.parent.remove of null: TypeError
              [m EXCEPT !.thrown = TRUE]
         ELSE Only({ _updateUseNodesIfNeeded([m EXCEPT !.heap = h1, !.idc = DeleteKey(@, id)],
                                             rt, parent, h1[parent].name)
                     : h1 \in {IF r.field # "none"
                               THEN ReplaceAttachment(m.heap, r.ret, parent, r.field)
                               ELSE Remove(m.heap, parent, r.ret)} })
         : parent \in {IF r.field # "none" THEN r.parent ELSE m.heap[r.ret].parent} })

deleteObject(id) ==
  /\ steps < MaxSteps
  /\ \E r \in {getObjectByCustomId(heap, objectsIdCache, id)} :
       \E m \in {IF r.ret = Null THEN [Start EXCEPT !.idc = r.idc]
                 ELSE DeleteResolved([Start EXCEPT !.idc = r.idc], root, id, r)} :
         /\ Commit(m)
         /\ root' = IF ~m.thrown /\ r.ret = root THEN Null ELSE root
         /\ sceneModified' = IF m.thrown THEN sceneModified ELSE TRUE
         /\ last' = [NoLast EXCEPT !.op = "deleteObject", !.id = id,
                                   !.hit = (NKey(id) \in DOMAIN objectsIdCache),
                                   !.rets = <<r.ret>>, !.field = r.field,
                                   !.parent = r.parent, !.thrown = m.thrown]
  /\ UNCHANGED pending

\* lines 145-152 with the parsed objects p and the resolved parent
AttachParsed(m, rt, parentObject, p) ==
  IF parentObject = Null
  THEN [m EXCEPT !.heap = AddAll(p.heap, SceneObj, p.objects, 1)]
  ELSE IF ~isObject3D(p.heap, parentObject)
  THEN \* parentObject.add is not a function: TypeError
       [m EXCEPT !.heap = p.heap, !.thrown = TRUE]
  ELSE _updateUseNodesIfNeeded([m EXCEPT !.heap = AddAll(p.heap, parentObject, p.objects, 1)],
                               rt, parentObject, p.heap[parentObject].name)

loadObject(tpl, parentId) ==
  /\ steps < MaxSteps
  /\ \E r \in {IF parentId # 0 THEN getObjectByCustomId(heap, objectsIdCache, parentId)
               ELSE [ret |-> Null, field |-> "none", parent |-> Null,
                     idc |-> objectsIdCache]},
        p \in {Parse(heap, tpl)} :
       \E m \in {AttachParsed([Start EXCEPT !.idc = r.idc], root, r.ret, p)} :
         /\ Commit(m)
         /\ root' = IF r.ret = Null THEN p.objects[1] ELSE root
         /\ sceneModified' = IF m.thrown THEN sceneModified ELSE TRUE
         /\ last' = [NoLast EXCEPT !.op = "loadObject", !.id = parentId,
                                   !.hit = (NKey(parentId) \in DOMAIN objectsIdCache),
                                   !.rets = <<r.ret>>, !.thrown = m.thrown]
  /\ UNCHANGED pending

\* a caller (the loader, the web interface) resolving an id: getObjectByCustomId(scene, 'n' + id)
resolve(id) ==
  /\ steps < MaxSteps
  /\ steps' = steps + 1
  /\ \E r \in {getObjectByCustomId(heap, objectsIdCache, id)} :
       /\ objectsIdCache' = r.idc
       /\ last' = [NoLast EXCEPT !.op = "resolve", !.id = id,
                                 !.hit = (NKey(id) \in DOMAIN objectsIdCache),
                                 !.rets = <<r.ret>>, !.field = r.field, !.parent = r.parent]
  /\ ulog' = <<>>
  /\ UNCHANGED <<heap, root, sceneModified, useNodeCache, pending>>

pick ==
  /\ steps < MaxSteps
  /\ steps' = steps + 1
  /\ sceneModified' = FALSE
  /\ ulog' = <<>>
  /\ last' = [NoLast EXCEPT !.op = "pick"]
  /\ UNCHANGED <<heap, root, useNodeCache, objectsIdCache, pending>>

RECURSIVE RemoveAll(_, _, _)
\* for (i = children.length - 1; i >= 0; i--) scene.remove(scene.children[i])
RemoveAll(h, p, i) ==
  IF i < 1 THEN h ELSE RemoveAll(Remove(h, p, h[p].children[i]), p, i - 1)

destroyWorld ==
  /\ steps < MaxSteps
  /\ steps' = steps + 1
  /\ heap' = RemoveAll(heap, SceneObj, Len(heap[SceneObj].children))
  /\ objectsIdCache' = <<>>
  /\ useNodeCache' = <<>>
  /\ root' = Null
  /\ sceneModified' = TRUE
  /\ ulog' = <<>>
  /\ last' = [NoLast EXCEPT !.op = "destroyWorld"]
  /\ UNCHANGED pending

\* loadWorldFile up to loader.load: the callback runs later
loadWorldFile ==
  /\ steps < MaxSteps
  /\ steps' = steps + 1
  /\ pending < MaxPending
  /\ objectsIdCache' = <<>>
  /\ pending' = pending + 1
  /\ ulog' = <<>>
  /\ last' = [NoLast EXCEPT !.op = "loadWorldFile"]
  /\ UNCHANGED <<heap, root, sceneModified, useNodeCache>>

\* the callback of loader.load (lines 122-136)
onLoad(tpl) ==
  /\ steps < MaxSteps
  /\ pending > 0
  /\ steps' = steps + 1
  /\ \E p \in {Parse(heap, tpl)} :
       /\ Len(p.heap) <= MaxObjects
       /\ heap' = Add(p.heap, SceneObj, p.objects[1])
       /\ root' = p.objects[1]
  /\ sceneModified' = TRUE
  /\ pending' = pending - 1
  /\ ulog' = <<>>
  /\ last' = [NoLast EXCEPT !.op = "onLoad"]
  /\ UNCHANGED <<useNodeCache, objectsIdCache>>

--------------------------------------------------------------------------
(* Specification *)

\* the scene after the constructor and init(), which ends with destroyWorld()
Init ==
  /\ heap = << NewObject("Object3D", <<>>) >>
  /\ root = Null
  /\ sceneModified = TRUE
  /\ useNodeCache = <<>>
  /\ objectsIdCache = <<>>
  /\ pending = 0
  /\ steps = 0
  /\ last = NoLast
  /\ ulog = <<>>

ApplyPose == \E id \in Ids, keys \in Poses : applyPose(id, keys)
DeleteObject == \E id \in Ids : deleteObject(id)
LoadObject == \E tpl \in Templates, parentId \in {0} \cup Ids : loadObject(tpl, parentId)
Resolve == \E id \in Ids : resolve(id)
Pick == pick
DestroyWorld == destroyWorld
LoadWorldFile == loadWorldFile
OnLoad == \E tpl \in Templates : onLoad(tpl)

Next ==
  \/ ApplyPose
  \/ DeleteObject
  \/ LoadObject
  \/ Resolve
  \/ Pick
  \/ DestroyWorld
  \/ LoadWorldFile
  \/ OnLoad

Spec == Init /\ [][Next]_vars

\* the handlers that call _updateUseNodesIfNeeded, on their own
NextAlias ==
  /\ steps < MaxAliasSteps
  /\ \/ LoadObject
     \/ ApplyPose
     \/ DeleteObject

SpecAlias == Init /\ [][NextAlias]_vars

--------------------------------------------------------------------------
(* What the properties below speak of *)

RECURSIVE Order(_, _)
RECURSIVE OrderAll(_, _, _)
\* the fixed depth-first order from o: the node, its structural children in
\* order, then a mesh's material and geometry, a material's six texture slots
OrderAll(h, objs, i) ==
  IF i > Len(objs) THEN <<>> ELSE Order(h, objs[i]) \o OrderAll(h, objs, i + 1)

Order(h, o) ==
  IF o = Null THEN <<>>
  ELSE <<o>> \o OrderAll(h, h[o].children, 1)
           \o (IF isMesh(h, o)
               THEN Order(h, h[o].att["material"]) \o Order(h, h[o].att["geometry"])
               ELSE IF isMaterial(h, o)
               THEN OrderAll(h, [i \in 1..Len(MapSlots) |-> h[o].att[MapSlots[i]]], 1)
               ELSE <<>>)

\* the first node in that order from the scene whose name contains 'n' + id
FirstMatch(h, id) ==
  LET ord == Order(h, SceneObj)
      hits == {i \in 1..Len(ord) : NameIncludes(h[ord[i]].name, id)}
  IN IF hits = {} THEN Null ELSE ord[CHOOSE i \in hits : \A j \in hits : i <= j]

\* the first mesh in that order whose material slot holds mat
OwnerMesh(h, mat) ==
  LET ord == Order(h, SceneObj)
      hits == {i \in 1..Len(ord) : isMesh(h, ord[i]) /\ h[ord[i]].att["material"] = mat}
  IN IF hits = {} THEN Null ELSE ord[CHOOSE i \in hits : \A j \in hits : i <= j]

\* what getObjectByCustomId(scene, 'n' + id) would return in this state
ResolvesTo(id) == getObjectByCustomId(heap, objectsIdCache, id).ret

Last(s) == s[Len(s)]

--------------------------------------------------------------------------
(* Properties *)

\* C1: a resolution of an id that is not yet in the Identifier Cache returns the
\* first node, in the fixed depth-first order from the scene, whose name
\* contains the id, and absent only when there is none.
C1_FirstMatchReturned ==
  (last.op = "resolve" /\ ~last.hit) => last.rets[1] = FirstMatch(heap, last.id)

\* C2: two consecutive resolutions of the same id, nothing in between, return
\* the same result, also when the first one populates the cache.
C2_RepeatedResolveAgrees ==
  [][(last.op = "resolve" /\ last'.op = "resolve" /\ last'.id = last.id)
       => last'.rets = last.rets]_vars

\* C3: once deleteObject(id) has removed the only node named with 'n' + id, the
\* Identifier Cache has no entry for 'n' + id and the id resolves to absent.
C3_DeletedIdEvicted ==
  (/\ last.op = "deleteObject" /\ ~last.thrown /\ last.rets[1] # Null
   /\ FirstMatch(heap, last.id) = Null)
  => (NKey(last.id) \notin DOMAIN objectsIdCache /\ ResolvesTo(last.id) = Null)

\* C4: after a pose update on a DEF source replaced a target by a new clone,
\* each id of the target's name resolves to that clone, not to the removed
\* original.
C4_TargetResolvesToClone ==
  (last.op = "applyPose" /\ ulog # <<>> /\ Last(ulog).object = Last(ulog).source)
  => \A j \in 1..Len(Last(ulog).steps) :
       LET st == Last(ulog).steps[j]
       IN st.ok => \A k \in 1..Len(heap[st.clone].name) :
                     ResolvesTo(heap[st.clone].name[k]) = st.clone

\* C5: for every tracked target of a propagation the clone takes the target's
\* place among the children of the target's parent: same length, same index,
\* the other siblings untouched, the clone's parent is that parent and its name
\* the target's.
C5_TargetReplacedInPlace ==
  \A i \in 1..Len(ulog) : \A j \in 1..Len(ulog[i].steps) :
    LET st == ulog[i].steps[j]
    IN /\ st.ok
       /\ st.index \in 1..Len(st.before)
       /\ st.before[st.index] = st.target
       /\ st.after = [st.before EXCEPT ![st.index] = st.clone]
       /\ st.cloneParent = st.parent
       /\ st.named

\* C6 as stated: on the first call for an id the cached source is the USE-bearing
\* node nearest to the object on its way up to the root, undefined when there
\* is none.
C6_SourceIsNearestUse ==
  \A i \in 1..Len(ulog) :
    ulog[i].first =>
      ulog[i].source = (IF ulog[i].usePath = <<>> THEN Null ELSE ulog[i].usePath[1])

\* C6 as amended: on the first call for an id the cached source is the
\* USE-bearing node farthest from the object (closest to the root) among those
\* met from the object (inclusive) up to the root (exclusive) or to a node
\* without a parent; undefined when there is none.
C6_SourceIsFarthestUse ==
  \A i \in 1..Len(ulog) :
    ulog[i].first =>
      ulog[i].source = (IF ulog[i].usePath = <<>> THEN Null ELSE Last(ulog[i].usePath))

\* C6 witness: a first call whose object has two USE-bearing nodes on its way up
C6_Witness ==
  \E i \in 1..Len(ulog) : ulog[i].first /\ Len(ulog[i].usePath) >= 2

\* C7: a call of _updateUseNodesIfNeeded for an object with no USE-bearing
\* ancestor-or-self below the root leaves the scene graph unchanged.
C7_NoUseNoChange ==
  \A i \in 1..Len(ulog) : ulog[i].usePath = <<>> => ~ulog[i].changed

\* C8: when deleteObject(id) resolves the id to the material of a mesh M, then
\* after the call M.material is a fresh default material, every other attachment
\* and every children list is as before, and the id resolves to absent.
C8_MaterialReplacedByDefault ==
  [][(/\ last'.op = "deleteObject" /\ last'.rets[1] # Null
      /\ isMaterial(heap, last'.rets[1]) /\ OwnerMesh(heap, last'.rets[1]) # Null)
     => LET M == OwnerMesh(heap, last'.rets[1])
        IN /\ ~last'.thrown
           /\ heap'[M].att["material"] > Len(heap)
           /\ heap'[heap'[M].att["material"]] = NewObject("Material", <<>>)
           /\ \A o \in 1..Len(heap) :
                /\ heap'[o].children = heap[o].children
                /\ \A f \in Slots : (o # M \/ f # "material") => heap'[o].att[f] = heap[o].att[f]
           /\ getObjectByCustomId(heap', objectsIdCache', last'.id).ret = Null]_vars

\* C9: applyPose with an id that no node of the graph is named with raises no
\* exception and leaves the graph, both caches and sceneModified unchanged.
C9_UnknownPoseIgnored ==
  [][(last'.op = "applyPose" /\ FirstMatch(heap, last'.id) = Null)
     => (/\ ~last'.thrown
         /\ ~GraphChanged(heap, heap')
         /\ objectsIdCache' = objectsIdCache
         /\ useNodeCache' = useNodeCache
         /\ sceneModified' = sceneModified)]_vars

\* C10: no handler raises an exception.
C10_NoException == ~last.thrown

\* the nodes attached to the scene graph below (and including) o
AttachedFrom(h, o) == {Order(h, o)[i] : i \in 1..Len(Order(h, o))}

\* the nodes an Alias Cache entry refers to
EntryNodes(e) == (IF e.source = Null THEN {} ELSE {e.source})
                 \cup {e.target[i] : i \in 1..Len(e.target)}

\* C11: the Identifier Cache and the Alias Cache are both empty right after
\* destroyWorld and right after loadWorldFile is called.
C11_CachesCleared ==
  (last.op \in {"destroyWorld", "loadWorldFile"})
  => (objectsIdCache = <<>> /\ useNodeCache = <<>>)

\* C12: when applyPose, loadObject or deleteObject returns after its alias
\* propagation replaced at least one target by a clone, sceneModified is true.
C12_PropagationMarksScene ==
  (/\ last.op \in {"applyPose", "loadObject", "deleteObject"}
   /\ ~last.thrown
   /\ \E i \in 1..Len(ulog) : \E j \in 1..Len(ulog[i].steps) : ulog[i].steps[j].ok)
  => sceneModified

\* C13: every entry of the Identifier Cache refers to a node that is attached
\* to the scene graph (reachable from the scene through children or slots).
C13_CachedNodesAttached ==
  \A k \in DOMAIN objectsIdCache :
    objectsIdCache[k].object \in AttachedFrom(heap, SceneObj)

\* the context a resolution should record for the node of entry e in graph h
CorrectContext(h, e) ==
  IF isObject3D(h, e.object)
  THEN e.field = "none" /\ e.parent = h[e.object].parent
  ELSE /\ e.field \in Slots
       /\ e.parent # Null
       /\ h[e.parent].att[e.field] = e.object

\* C14: the context a resolution stores in the Identifier Cache, and reports, is
\* correct: for a structural match no field and the structural parent, for an
\* attachment match the slot and the object owning that slot.
C14_ContextCorrect ==
  [][last'.op = "resolve"
     => /\ \A k \in DOMAIN objectsIdCache' \ DOMAIN objectsIdCache :
             CorrectContext(heap, objectsIdCache'[k])
        /\ (last'.hit /\ CorrectContext(heap, objectsIdCache[NKey(last'.id)]))
             => (/\ last'.field = objectsIdCache[NKey(last'.id)].field
                 /\ last'.parent = objectsIdCache[NKey(last'.id)].parent)]_vars

\* C18: once the callback of loadWorldFile has set the new root, every entry of
\* the Identifier Cache and of the Alias Cache refers only to nodes of the
\* newly loaded scene.
C18_CachesOfNewScene ==
  (last.op = "onLoad")
  => /\ \A k \in DOMAIN objectsIdCache :
          objectsIdCache[k].object \in AttachedFrom(heap, root)
     /\ \A k \in DOMAIN useNodeCache :
          EntryNodes(useNodeCache[k]) \subseteq AttachedFrom(heap, root)

\* C19: a loadObject that adds at the top level of the scene or assigns root was
\* called with parentId 0 while root was undefined, and adds at most one object.
C19_TopLevelOnlyWithoutParent ==
  [][(/\ last'.op = "loadObject"
      /\ (heap'[SceneObj].children # heap[SceneObj].children \/ root' # root))
     => (/\ last'.id = 0
         /\ root = Null
         /\ Len(heap'[SceneObj].children) <= Len(heap[SceneObj].children) + 1)]_vars

\* C20: a node cached (and returned) for id carries id as an exact token of its
\* name, never only as the prefix of a longer id.
C20_ExactTokenMatch ==
  \A k \in DOMAIN objectsIdCache :
    \E i \in 1..Len(heap[objectsIdCache[k].object].name) :
      heap[objectsIdCache[k].object].name[i] = k[2]

\* C15: _updateUseNodesIfNeeded(object, ids) with k > 1 ids does what k calls
\* with ids[1], ..., ids[k] do, one propagation per element and Alias Cache
\* entries under the individual ids only; with one id it is the single call.
C15_ArrayIsEachElement ==
  (last.op \in {"loadObject", "deleteObject"} /\ ~last.thrown /\ ulog # <<>>)
  => LET names == heap[ulog[1].object].name
     IN IF Len(names) > 1
        THEN /\ Len(ulog) = Len(names)
             /\ \A i \in 1..Len(names) : ulog[i].key = NameKey(<<names[i]>>)
             /\ \A k \in DOMAIN useNodeCache : Len(k[2]) <= 1
        ELSE Len(ulog) = 1 /\ ulog[1].key = NameKey(names)

RECURSIVE SameShape(_, _, _)
\* b has the kind, the attachments and, child by child, the structure of a
SameShape(h, a, b) ==
  /\ h[a].kind = h[b].kind
  /\ h[a].att = h[b].att
  /\ Len(h[a].children) = Len(h[b].children)
  /\ \A i \in 1..Len(h[a].children) : SameShape(h, h[a].children[i], h[b].children[i])

\* the DEF sources of graph h that have o in their subtree (children and
\* attachments) and for which the Alias Cache unc tracks at least one target
TrackedSourcesOver(h, unc, o) ==
  {s \in AttachedFrom(h, SceneObj) \ {o} :
     /\ h[s].userDataUSE # <<>>
     /\ o \in AttachedFrom(h, s)
     /\ \E k \in DOMAIN unc : unc[k].source = s /\ unc[k].target # <<>>}

\* C16: when deleteObject removes a child or an attachment inside the subtree
\* of a DEF source with tracked targets, then on return every tracked target of
\* that source is a fresh clone of the source as it is after the deletion.
C16_DeleteRefreshesTargets ==
  [][(/\ last'.op = "deleteObject" /\ last'.rets[1] # Null
      /\ TrackedSourcesOver(heap, useNodeCache, last'.rets[1]) # {})
     => /\ ~last'.thrown
        /\ \A s \in TrackedSourcesOver(heap, useNodeCache, last'.rets[1]) :
             \A k \in DOMAIN useNodeCache' :
               useNodeCache'[k].source = s
               => \A i \in 1..Len(useNodeCache'[k].target) :
                    LET t == useNodeCache'[k].target[i]
                    IN /\ t > Len(heap)
                       /\ t \in AttachedFrom(heap', SceneObj)
                       /\ SameShape(heap', s, t)]_vars

\* C17: an Alias Cache entry, once made, is never discovered again before
\* destroyWorld: its source stays, the number of its tracked targets stays, and
\* every later call for its id propagates without a discovery.
C17_AliasEntryFixed ==
  [][last'.op # "destroyWorld"
     => /\ \A k \in DOMAIN useNodeCache :
             /\ k \in DOMAIN useNodeCache'
             /\ useNodeCache'[k].source = useNodeCache[k].source
             /\ Len(useNodeCache'[k].target) = Len(useNodeCache[k].target)
        /\ \A i \in 1..Len(ulog') :
             ulog'[i].key \in DOMAIN useNodeCache => ~ulog'[i].first]_vars

\* C17 witness: a propagation ran for an entry made earlier whose source lists
\* a USE id that was dropped at discovery although it resolves by now
C17_Witness ==
  \E i \in 1..Len(ulog) :
    /\ ~ulog[i].first
    /\ ulog[i].source # Null
    /\ Len(ulog[i].tracked) < Len(heap[ulog[i].source].userDataUSE)
    /\ \E j \in 1..Len(heap[ulog[i].source].userDataUSE) :
         ResolvesTo(heap[ulog[i].source].userDataUSE[j]) # Null

====
